---- MODULE Spec2Model ----
(***************************************************************************)
(* Sprite-sheet composition of comfyui-helper: configuration loading and   *)
(* validation, frame discovery, grid placement and metadata emission, as   *)
(* implemented by SpriteSheetComposer (core/sprite_composer.py) and driven *)
(* by the compose_sprite_sheet tool.                                       *)
(*                                                                         *)
(* Abstractions.  An image is one grid cell wide after the resize to       *)
(* (frame_width, frame_height), and every paste happens at a cell-aligned  *)
(* offset, so the canvas is modelled cell by cell: each cell keeps the     *)
(* colour it was allocated with and the list of frames pasted onto it.     *)
(* A file name stem is a tuple of characters; int() is computed from its   *)
(* digits.  An error message is the tuple of the words it is built from.   *)
(* Output files are written to a writable location in Spec; WriteSpec adds *)
(* the writes that fail.  LegacySpec is the older package with its default *)
(* configuration and preview, OrderSpec runs the animations' loops in any  *)
(* interleaving, RescanSpec calls a composer twice around a change of the  *)
(* directory, and ToolSpec is one call of the compose_sprite_sheet tool.   *)
(* A directory lists its files in the order glob yields them; the order of *)
(* an unchanged directory is the same in every enumeration.  The frame     *)
(* discovery of the flat naming convention (the older package's            *)
(* sprite_composer.py) is applied to flat directories on its own.          *)
(***************************************************************************)
EXTENDS Integers, Sequences, FiniteSets, TLC

\* Largest frame count an animation is configured with.
MaxFrames == 2

----------------------------------------------------------------------------
(* Configuration mappings                                                  *)

required_fields == <<"frame_width", "frame_height", "cols", "rows", "animations">>

Range(s) == {s[i] : i \in 1..Len(s)}

ConfigKeys == Range(required_fields) \cup {"background_color"}

Transparent == <<0, 0, 0, 0>>
Red == <<255, 0, 0, 255>>

\* A mapping: the keys it holds and their values (a key it does not hold has a
\* placeholder value nothing reads).
Mapping(keys, fw, fh, c, r, anims, bg) ==
    [keys |-> keys,
     frame_width |-> IF "frame_width" \in keys THEN fw ELSE 0,
     frame_height |-> IF "frame_height" \in keys THEN fh ELSE 0,
     cols |-> IF "cols" \in keys THEN c ELSE 0,
     rows |-> IF "rows" \in keys THEN r ELSE 0,
     animations |-> IF "animations" \in keys THEN anims ELSE <<>>,
     background_color |-> IF "background_color" \in keys THEN bg ELSE <<>>]

EmptyMapping == Mapping({}, 0, 0, 0, 0, <<>>, <<>>)

\* Rows an animation may name.
RowChoices == {0, 1}

AnimEntries(name) ==
    {[name |-> name, row |-> r, frames |-> k] : r \in RowChoices, k \in 0..MaxFrames}

\* The animations object in key order: no animation, one, or two.
AnimationMaps ==
    {<<>>} \cup {<<a>> : a \in AnimEntries("idle")}
           \cup {<<a, b>> : a \in AnimEntries("idle"), b \in AnimEntries("walk")}

\* <<cols, rows>> of the grids that take every animations object; in the
\* first an animation can hold more frames than the grid has columns.
GridShapes == {<<1, 2>>, <<2, 2>>}

\* Mappings with every required field and positive dimensions.  Those of the
\* second set have a single row, which an animation can lie outside of; those
\* of the third leave background_color out.
GoodMappings ==
    {Mapping(ConfigKeys, 2, 3, g[1], g[2], anims, Red) :
        g \in GridShapes, anims \in AnimationMaps}
    \cup {Mapping(ConfigKeys, 2, 3, 2, 1, anims, Red) :
            anims \in {<<a>> : a \in AnimEntries("idle")}}
    \cup {Mapping(Range(required_fields), 2, 3, 2, 2, anims, Red) :
            anims \in {<<a>> : a \in AnimEntries("idle")}}

\* <<frame_width, frame_height, cols, rows>> with a zero or negative entry.
DegenerateDims ==
    {<<0, 3, 1, 1>>, <<-2, 3, 1, 1>>, <<2, 0, 1, 1>>, <<2, -3, 1, 1>>,
     <<2, 3, 0, 1>>, <<2, 3, -1, 1>>, <<2, 3, 1, 0>>, <<2, 3, 1, -1>>,
     <<-2, 3, -1, 1>>, <<0, 0, 0, 0>>}

DegenerateMappings ==
    {Mapping(Range(required_fields), d[1], d[2], d[3], d[4],
             <<[name |-> "idle", row |-> 0, frames |-> 1]>>, Transparent) :
        d \in DegenerateDims}

\* Mappings that lack at least one required field.
PartialMappings ==
    {Mapping(ks, 2, 3, 2, 1, <<>>, Red) :
        ks \in {k \in SUBSET ConfigKeys : ~(Range(required_fields) \subseteq k)}}

Mappings == GoodMappings \cup DegenerateMappings \cup PartialMappings

\* The mappings read from files: all that are rejected, and some that are not.
FileMappings ==
    PartialMappings \cup DegenerateMappings \cup {EmptyMapping}
    \cup {m \in GoodMappings : Len(m.animations) <= 1 /\ m.rows = 2}

\* A configuration file: absent, present but not JSON, or holding a mapping.
ConfigFiles ==
    {[exists |-> FALSE, parses |-> FALSE, mapping |-> EmptyMapping],
     [exists |-> TRUE, parses |-> FALSE, mapping |-> EmptyMapping]}
    \cup {[exists |-> TRUE, parses |-> TRUE, mapping |-> m] : m \in FileMappings}

----------------------------------------------------------------------------
(* Exceptions                                                              *)

NoException == [type |-> "None", msg |-> <<>>]

Exc(type, msg) == [type |-> type, msg |-> msg]

\* The classes an exception of the given type is an instance of.
Bases(type) ==
    CASE type = "JSONDecodeError" -> {"JSONDecodeError", "ValueError", "Exception"}
      [] type = "ValueError" -> {"ValueError", "Exception"}
      [] type = "FileNotFoundError" -> {"FileNotFoundError", "OSError", "Exception"}
      [] type = "Exception" -> {"Exception"}
      [] OTHER -> {}

IsInstance(e, cls) == cls \in Bases(e.type)

Returned(v) == [raised |-> FALSE, exc |-> NoException, value |-> v]
Raised(e) == [raised |-> TRUE, exc |-> e, value |-> EmptyMapping]

\* [field for field in required_fields if field not in config]
RECURSIVE missing_from(_, _)
missing_from(fields, config) ==
    IF fields = <<>> THEN <<>>
    ELSE (IF Head(fields) \in config.keys THEN <<>> ELSE <<Head(fields)>>)
         \o missing_from(Tail(fields), config)

\* As missing_fields, but reporting the first missing field only.
missing_fields_first_only(config) ==
    IF missing_from(required_fields, config) = <<>> THEN <<>>
    ELSE <<Head(missing_from(required_fields, config))>>

missing_fields(config) == missing_from(required_fields, config)

\* The try block of load_config_file: json.load, then the field check.
load_config_try(file) ==
    IF ~file.parses
    THEN Raised(Exc("JSONDecodeError", <<"Expecting value">>))
    ELSE IF missing_fields(file.mapping) # <<>>
    THEN Raised(Exc("ValueError",
                    <<"config file lacks required fields">>
                        \o missing_fields(file.mapping)))
    ELSE Returned(file.mapping)

\* load_config_file: the existence check, the try block and its two except
\* clauses, which apply to whatever the try block raised.
load_config_file(file) ==
    IF ~file.exists
    THEN Raised(Exc("FileNotFoundError", <<"config file does not exist">>))
    ELSE LET r == load_config_try(file) IN
         IF ~r.raised THEN r
         ELSE IF IsInstance(r.exc, "JSONDecodeError")
         THEN Raised(Exc("JSONDecodeError", <<"config file format error">>))
         ELSE IF IsInstance(r.exc, "Exception")
         THEN Raised(Exc("Exception", <<"failed to load config file">> \o r.exc.msg))
         ELSE r

\* SpriteSheetComposer.__init__
SpriteSheetComposer(config) ==
    IF config.keys = {}
    THEN Raised(Exc("ValueError", <<"a config dictionary must be provided">>))
    ELSE IF missing_fields(config) # <<>>
    THEN Raised(Exc("ValueError",
                    <<"config lacks required fields">> \o missing_fields(config)))
    ELSE Returned([frame_width |-> config.frame_width,
                   frame_height |-> config.frame_height,
                   cols |-> config.cols,
                   rows |-> config.rows,
                   animations |-> config.animations,
                   background_color |->
                       IF "background_color" \in config.keys
                       THEN config.background_color ELSE Transparent])

NoComposer ==
    [frame_width |-> 0, frame_height |-> 0, cols |-> 0, rows |-> 0,
     animations |-> <<>>, background_color |-> Transparent]

\* The except clauses of the tool around load_config_file and the constructor:
\* the first clause the exception is an instance of handles it.
except_branch(e) ==
    IF IsInstance(e, "FileNotFoundError") THEN "FileNotFoundError"
    ELSE IF IsInstance(e, "JSONDecodeError") THEN "JSONDecodeError"
    ELSE IF IsInstance(e, "ValueError") THEN "ValueError"
    ELSE IF IsInstance(e, "Exception") THEN "Exception"
    ELSE "none"

----------------------------------------------------------------------------
(* The input directory and frame discovery                                 *)

DirNames == {"idle", "walk"}

\* File name stems of the PNG files a subdirectory may hold: 1, 2 and 10, 01
\* (the index of 1 again) and a name that is not a number.
Stems == {<<"1">>, <<"2">>, <<"1", "0">>, <<"0", "1">>, <<"x">>}

\* The PNG files of the first subdirectory, in the order glob yields them.
IdleListings ==
    {<<>>,
     <<<<"1">>>>,
     <<<<"2">>, <<"1">>>>,
     <<<<"1", "0">>, <<"2">>>>,
     <<<<"1", "0">>, <<"2">>, <<"1">>>>,
     <<<<"1">>, <<"0", "1">>>>,
     <<<<"0", "1">>, <<"1">>>>,
     <<<<"0", "1">>, <<"2">>, <<"1">>>>,
     <<<<"x">>>>,
     <<<<"x">>, <<"2">>, <<"1">>>>}

\* Those of the second.
WalkListings == {<<>>, <<<<"1">>>>, <<<<"1">>, <<"2">>>>}

FilePaths == [dir : DirNames, stem : Stems]

\* The stems of the files of a subdirectory.
StemsIn(dir, d) == Range(dir.subdirs[d])

PathsIn(subdirs) == {p \in FilePaths : p.stem \in Range(subdirs[p.dir])}

NoDirectory ==
    [path |-> "no_such_dir", exists |-> FALSE,
     subdirs |-> [d \in DirNames |-> <<>>], flat |-> <<>>, corrupt |-> {}]

\* A directory: per subdirectory its PNG files in enumeration order (none when
\* there is no such subdirectory), the PNG files directly in it, and the files
\* that cannot be decoded.
Directory(subdirs, flat, corrupt) ==
    [path |-> "input_frames", exists |-> TRUE, subdirs |-> subdirs, flat |-> flat,
     corrupt |-> corrupt]

\* The input directories of the subdirectory convention (at most one file
\* that cannot be decoded).
InputDirs ==
    {NoDirectory} \cup
    UNION {{Directory(s, <<>>, c) : c \in {{}} \cup {{p} : p \in PathsIn(s)}} :
           s \in {t \in [DirNames -> IdleListings \cup WalkListings] :
                     t["idle"] \in IdleListings /\ t["walk"] \in WalkListings}}

DigitChars == <<"0", "1", "2", "3", "4", "5", "6", "7", "8", "9">>

DigitValue(ch) == (CHOOSE i \in 1..Len(DigitChars) : DigitChars[i] = ch) - 1

\* Whether int(stem) returns (decimal digits only; signs, blanks and
\* underscores do not occur in the stems considered).
int_parses(stem) ==
    stem # <<>> /\ \A i \in 1..Len(stem) : stem[i] \in Range(DigitChars)

RECURSIVE int(_)
int(stem) ==
    IF stem = <<>> THEN 0
    ELSE 10 * int(SubSeq(stem, 1, Len(stem) - 1)) + DigitValue(stem[Len(stem)])

\* As frame_files, with the except clause missing: the first name that does
\* not parse ends the scan of the subdirectory.
RECURSIVE frame_files_until_unparsable(_, _)
frame_files_until_unparsable(input_dir, d) ==
    LET listing == input_dir.subdirs[d] IN
    IF listing = <<>> \/ ~int_parses(Head(listing)) THEN <<>>
    ELSE <<[dir |-> d, stem |-> Head(listing)]>>
         \o frame_files_until_unparsable(
                [input_dir EXCEPT !.subdirs[d] = Tail(listing)], d)

\* As frame_files, with a recursive glob: the PNG files of every subdirectory.
frame_files_any_dir(input_dir, d) ==
    LET parsable(st) == int_parses(st)
        Of(e) == LET kept == SelectSeq(input_dir.subdirs[e], parsable)
                 IN [i \in 1..Len(kept) |-> [dir |-> e, stem |-> kept[i]]]
    IN IF input_dir.subdirs[d] = <<>> THEN <<>> ELSE Of("idle") \o Of("walk")

\* The frame_files list of one subdirectory before the sort: the files whose
\* stem parses, in enumeration order.
frame_files(input_dir, d) ==
    LET parsable(st) == int_parses(st)
        kept == SelectSeq(input_dir.subdirs[d], parsable)
    IN [i \in 1..Len(kept) |-> [dir |-> d, stem |-> kept[i]]]

\* Characters in the order of their code points.
CharOrder == DigitChars \o <<"_", "x">>

CharRank(ch) == CHOOSE i \in 1..Len(CharOrder) : CharOrder[i] = ch

\* Whether name a precedes name b as a string.
RECURSIVE str_less(_, _)
str_less(a, b) ==
    IF b = <<>> THEN FALSE
    ELSE IF a = <<>> THEN TRUE
    ELSE IF Head(a) # Head(b) THEN CharRank(Head(a)) < CharRank(Head(b))
    ELSE str_less(Tail(a), Tail(b))

\* Where a file goes into an ascending list: after every file that does not
\* come after it.
RECURSIVE insert_by_name(_, _)
insert_by_name(sorted, file) ==
    IF sorted = <<>> THEN <<file>>
    ELSE IF str_less(file.stem, Head(sorted).stem) THEN <<file>> \o sorted
    ELSE <<Head(sorted)>> \o insert_by_name(Tail(sorted), file)

RECURSIVE insert_by_frame_num(_, _)
insert_by_frame_num(sorted, file) ==
    IF sorted = <<>> THEN <<file>>
    ELSE IF int(file.stem) < int(Head(sorted).stem) THEN <<file>> \o sorted
    ELSE <<Head(sorted)>> \o insert_by_frame_num(Tail(sorted), file)

\* As sort_by_frame_num, ordering the files by their names.
RECURSIVE sort_by_name(_)
sort_by_name(files) ==
    IF files = <<>> THEN <<>>
    ELSE insert_by_name(sort_by_name(SubSeq(files, 1, Len(files) - 1)),
                        files[Len(files)])

\* frame_files.sort(key=frame_num): ascending in frame_num; the sort is stable,
\* so files of equal frame_num stay in enumeration order.
RECURSIVE sort_by_frame_num(_)
sort_by_frame_num(files) ==
    IF files = <<>> THEN <<>>
    ELSE insert_by_frame_num(sort_by_frame_num(SubSeq(files, 1, Len(files) - 1)),
                             files[Len(files)])

\* As find_frames, without the `if frame_files:` guard: every subdirectory has
\* an entry.
find_frames_keep_empty(input_dir) ==
    [d \in DirNames |-> sort_by_frame_num(frame_files(input_dir, d))]

\* As find_frames_raises, with a message that does not say which directory.
find_frames_raises_unnamed(input_dir) ==
    Exc("FileNotFoundError", <<"input directory does not exist">>)

\* What find_frames raises for a directory that does not exist.
find_frames_raises(input_dir) ==
    Exc("FileNotFoundError", <<"input directory does not exist", input_dir.path>>)

\* The mapping find_frames returns for an existing directory.
find_frames(input_dir) ==
    [d \in {e \in DirNames : frame_files(input_dir, e) # <<>>} |->
        sort_by_frame_num(frame_files(input_dir, d))]

----------------------------------------------------------------------------
(* Frame discovery of the flat naming convention (sprite_composer.py of the *)
(* older package): PNG files {animation}_{index}.png directly in the input *)
(* directory.  A stem is a tuple of words, underscores and digits.          *)

\* The stems a flat directory may hold, in one enumeration order:
\* walk_down_1, walk_down_2, walk_down_10, walk_down_01, walk_down_x, walk_1,
\* walk and 1.
FlatStems ==
    <<<<"walk", "_", "down", "_", "1">>,
      <<"walk", "_", "down", "_", "2">>,
      <<"walk", "_", "down", "_", "1", "0">>,
      <<"walk", "_", "down", "_", "0", "1">>,
      <<"walk", "_", "down", "_", "x">>,
      <<"walk", "_", "1">>,
      <<"walk">>,
      <<"1">>>>

RECURSIVE Reverse(_)
Reverse(s) == IF s = <<>> THEN <<>> ELSE Reverse(Tail(s)) \o <<Head(s)>>

\* The files of a flat directory in the order glob yields them: any of the
\* stems, in the order above or in the opposite one.
FlatListings ==
    UNION {LET kept(st) == st \in keep
               listing == SelectSeq(FlatStems, kept)
           IN {listing, Reverse(listing)} : keep \in SUBSET Range(FlatStems)}

FlatDirs == {Directory([d \in DirNames |-> <<>>], l, {}) : l \in FlatListings}

\* filename.split('_')
RECURSIVE split(_)
split(filename) ==
    IF filename = <<>> THEN <<<<>>>>
    ELSE LET rest == split(Tail(filename)) IN
         IF Head(filename) = "_" THEN <<<<>>>> \o rest
         ELSE <<<<Head(filename)>> \o Head(rest)>> \o Tail(rest)

\* '_'.join(parts)
RECURSIVE join(_)
join(parts) ==
    IF parts = <<>> THEN <<>>
    ELSE IF Len(parts) = 1 THEN parts[1]
    ELSE parts[1] \o <<"_">> \o join(Tail(parts))

\* parts[-1] and '_'.join(parts[:-1])
frame_num_str(filename) == split(filename)[Len(split(filename))]

anim_name_of(filename) ==
    join(SubSeq(split(filename), 1, Len(split(filename)) - 1))

\* The files the loop of the flat find_frames appends to a list: at least
\* three parts, the last of which int() accepts.
flat_accepts(filename) ==
    Len(split(filename)) >= 3 /\ int_parses(frame_num_str(filename))

RECURSIVE flat_insert(_, _)
flat_insert(sorted, filename) ==
    IF sorted = <<>> THEN <<filename>>
    ELSE IF int(frame_num_str(filename)) < int(frame_num_str(Head(sorted)))
    THEN <<filename>> \o sorted
    ELSE <<Head(sorted)>> \o flat_insert(Tail(sorted), filename)

\* found_frames[anim_name].sort(key=frame_num), a stable sort.
RECURSIVE flat_sort(_)
flat_sort(filenames) ==
    IF filenames = <<>> THEN <<>>
    ELSE flat_insert(flat_sort(SubSeq(filenames, 1, Len(filenames) - 1)),
                     filenames[Len(filenames)])

\* find_frames of the flat convention, for an existing directory.
flat_find_frames(input_dir) ==
    LET accepted(filename) == flat_accepts(filename)
        kept == SelectSeq(input_dir.flat, accepted)
    IN [name \in {anim_name_of(kept[i]) : i \in 1..Len(kept)} |->
           LET Of(filename) == anim_name_of(filename) = name
           IN flat_sort(SelectSeq(kept, Of))]

----------------------------------------------------------------------------
(* Composition                                                             *)

\* As min, without the cap.
min_first_argument(a, b) == a

min(a, b) == IF a <= b THEN a ELSE b

sheet_width(self) == self.frame_width * self.cols

\* As sheet_height, with the column count in place of the row count.
sheet_height_by_cols(self) == self.frame_height * self.cols

sheet_height(self) == self.frame_height * self.rows

\* The cells <<column, row>> of the grid.
GridCells(self) == (0..(self.cols - 1)) \X (0..(self.rows - 1))

NoImage == [width |-> 0, height |-> 0, cells |-> <<>>]

\* As Image_new, without the colour argument: the image starts transparent.
Image_new_without_colour(self) ==
    [width |-> sheet_width(self),
     height |-> sheet_height(self),
     cells |-> [c \in GridCells(self) |-> [base |-> Transparent, layers |-> <<>>]]]

\* Image.new('RGBA', (sheet_width, sheet_height), background_color)
Image_new(self) ==
    [width |-> sheet_width(self),
     height |-> sheet_height(self),
     cells |-> [c \in GridCells(self) |->
                   [base |-> self.background_color, layers |-> <<>>]]]

\* Image.new raises ValueError for a negative width or height.
Image_new_raises(self) == sheet_width(self) < 0 \/ sheet_height(self) < 0

\* Image.open(frame_path).convert('RGBA').resize((frame_width, frame_height)):
\* fails for a file that does not decode and for a size that is not positive.
frame_loads(self, input_dir, frame_path) ==
    /\ frame_path \notin input_dir.corrupt
    /\ self.frame_width > 0
    /\ self.frame_height > 0

\* As paste, one column to the right: x = (frame_idx + 1) * frame_width.
paste_next_column(sprite_sheet, frame_path, frame_idx, row) ==
    IF <<frame_idx + 1, row>> \in DOMAIN sprite_sheet.cells
    THEN [sprite_sheet EXCEPT
             !.cells[<<frame_idx + 1, row>>].layers = Append(@, frame_path)]
    ELSE sprite_sheet

\* As paste, with a frame twice the cell's height: it also covers the cell
\* below, <<frame_idx, row + 1>>.
paste_spilling_below(sprite_sheet, frame_path, frame_idx, row) ==
    [sprite_sheet EXCEPT
        !.cells = [c \in DOMAIN @ |->
                      IF c = <<frame_idx, row>> \/ c = <<frame_idx, row + 1>>
                      THEN [@[c] EXCEPT !.layers = Append(@, frame_path)]
                      ELSE @[c]]]

\* sprite_sheet.paste(frame_img, (frame_idx * frame_width, row * frame_height),
\* frame_img): the frame covers exactly the cell <<frame_idx, row>>; what falls
\* outside the image is clipped.
paste(sprite_sheet, frame_path, frame_idx, row) ==
    IF <<frame_idx, row>> \in DOMAIN sprite_sheet.cells
    THEN [sprite_sheet EXCEPT !.cells[<<frame_idx, row>>].layers = Append(@, frame_path)]
    ELSE sprite_sheet

\* As place_frames, with the try around the whole loop: the first frame that
\* fails ends the animation's loop.
RECURSIVE place_frames_stop_at_failure(_, _, _, _, _, _, _)
place_frames_stop_at_failure(self, input_dir, st, row, frame_paths, frame_idx, actual_frames) ==
    IF frame_idx >= actual_frames THEN st
    ELSE IF frame_paths[frame_idx + 1] \in input_dir.corrupt
            \/ self.frame_width <= 0 \/ self.frame_height <= 0
    THEN [st EXCEPT !.missing_frames = @ + 1]
    ELSE place_frames_stop_at_failure(self, input_dir,
             [st EXCEPT
                !.sprite_sheet =
                    IF <<frame_idx, row>> \in DOMAIN @.cells
                    THEN [@ EXCEPT !.cells[<<frame_idx, row>>].layers =
                                       Append(@, frame_paths[frame_idx + 1])]
                    ELSE @,
                !.processed_frames = @ + 1],
             row, frame_paths, frame_idx + 1, actual_frames)

\* As place_frames, with an except clause that only logs: a frame that fails
\* is counted neither as processed nor as missing.
RECURSIVE place_frames_failure_uncounted(_, _, _, _, _, _, _)
place_frames_failure_uncounted(self, input_dir, st, row, frame_paths, frame_idx, actual_frames) ==
    IF frame_idx >= actual_frames THEN st
    ELSE place_frames_failure_uncounted(self, input_dir,
             IF frame_paths[frame_idx + 1] \in input_dir.corrupt
                \/ self.frame_width <= 0 \/ self.frame_height <= 0
             THEN st
             ELSE [st EXCEPT
                     !.sprite_sheet =
                         IF <<frame_idx, row>> \in DOMAIN @.cells
                         THEN [@ EXCEPT !.cells[<<frame_idx, row>>].layers =
                                            Append(@, frame_paths[frame_idx + 1])]
                         ELSE @,
                     !.processed_frames = @ + 1],
             row, frame_paths, frame_idx + 1, actual_frames)

\* for frame_idx in range(actual_frames): try paste / except count as missing.
\* st is [sprite_sheet, processed_frames, missing_frames].
RECURSIVE place_frames(_, _, _, _, _, _, _)
place_frames(self, input_dir, st, row, frame_paths, frame_idx, actual_frames) ==
    IF frame_idx >= actual_frames THEN st
    ELSE LET frame_path == frame_paths[frame_idx + 1]
             after ==
                 IF frame_loads(self, input_dir, frame_path)
                 THEN [st EXCEPT
                          !.sprite_sheet = paste(@, frame_path, frame_idx, row),
                          !.processed_frames = @ + 1]
                 ELSE [st EXCEPT !.missing_frames = @ + 1]
         IN place_frames(self, input_dir, after, row, frame_paths,
                         frame_idx + 1, actual_frames)

\* As process_animation, without the count of the frames that were not found.
process_animation_uncounted(self, input_dir, found, st, anim_config) ==
    IF anim_config.name \in DOMAIN found
    THEN place_frames(self, input_dir, st, anim_config.row, found[anim_config.name],
                      0, min(Len(found[anim_config.name]), anim_config.frames))
    ELSE st

\* The body of the loop over self.animations.items().
process_animation(self, input_dir, found, st, anim_config) ==
    LET row == anim_config.row
        expected_frames == anim_config.frames
    IN IF anim_config.name \in DOMAIN found
       THEN LET frame_paths == found[anim_config.name]
                actual_frames == min(Len(frame_paths), expected_frames)
                placed == place_frames(self, input_dir, st, row, frame_paths,
                                       0, actual_frames)
            IN IF actual_frames < expected_frames
               THEN [placed EXCEPT !.missing_frames = @ + (expected_frames - actual_frames)]
               ELSE placed
       ELSE [st EXCEPT !.missing_frames = @ + expected_frames]

NoMetadata ==
    [frame_width |-> 0, frame_height |-> 0, cols |-> 0, rows |-> 0,
     animations |-> <<>>]

\* generate_sprite_config: the content of the metadata file.
generate_sprite_config(self) ==
    [frame_width |-> self.frame_width,
     frame_height |-> self.frame_height,
     cols |-> self.cols,
     rows |-> self.rows,
     animations |-> [i \in 1..Len(self.animations) |->
                        [name |-> self.animations[i].name,
                         row |-> self.animations[i].row + 1,
                         frames |-> self.animations[i].frames]]]

\* The result dictionary create_sprite_sheet starts from.
InitialResult ==
    [success |-> FALSE, message |-> <<>>, output_path |-> "", config_path |-> "",
     processed_frames |-> 0, missing_frames |-> 0,
     sheet_width |-> 0, sheet_height |-> 0]

\* The except clause of create_sprite_sheet, for the exception e.
FailureResult(res, e) ==
    [res EXCEPT !.message = <<"failed to create sprite sheet">> \o e.msg]

\* The result.update(...) of a completed run.
SuccessResult(self, res, processed, missing) ==
    [res EXCEPT !.success = TRUE,
                !.message = <<"sprite sheet created">>,
                !.processed_frames = processed,
                !.missing_frames = missing,
                !.sheet_width = sheet_width(self),
                !.sheet_height = sheet_height(self)]

----------------------------------------------------------------------------
(* The older package: default-filling configuration, preview, Godot        *)
(* metadata                                                                *)

Directions == <<"down", "left", "right", "up">>

\* The four actions of the default configuration and their frame counts.
DefaultActions == <<<<"idle", 8>>, <<"walk", 8>>, <<"run", 6>>, <<"attack", 4>>>>

\* idle_down .. attack_up on the rows 0 .. 15.
DefaultAnimations ==
    [i \in 1..16 |->
        [name |-> <<DefaultActions[((i - 1) \div 4) + 1][1], "_",
                    Directions[((i - 1) % 4) + 1]>>,
         row |-> i - 1,
         frames |-> DefaultActions[((i - 1) \div 4) + 1][2]]]

get_default_config == Mapping(ConfigKeys, 64, 96, 8, 16, DefaultAnimations, Transparent)

\* As dict_update, with the animations of both mappings kept.
dict_update_merging(d, u) ==
    Mapping(d.keys \cup u.keys,
            IF "frame_width" \in u.keys THEN u.frame_width ELSE d.frame_width,
            IF "frame_height" \in u.keys THEN u.frame_height ELSE d.frame_height,
            IF "cols" \in u.keys THEN u.cols ELSE d.cols,
            IF "rows" \in u.keys THEN u.rows ELSE d.rows,
            IF "animations" \in u.keys THEN d.animations \o u.animations
                                       ELSE d.animations,
            IF "background_color" \in u.keys THEN u.background_color
                                             ELSE d.background_color)

\* d.update(u): every key of u takes u's value, whatever the value is.
dict_update(d, u) ==
    Mapping(d.keys \cup u.keys,
            IF "frame_width" \in u.keys THEN u.frame_width ELSE d.frame_width,
            IF "frame_height" \in u.keys THEN u.frame_height ELSE d.frame_height,
            IF "cols" \in u.keys THEN u.cols ELSE d.cols,
            IF "rows" \in u.keys THEN u.rows ELSE d.rows,
            IF "animations" \in u.keys THEN u.animations ELSE d.animations,
            IF "background_color" \in u.keys THEN u.background_color
                                             ELSE d.background_color)

\* The try block of the default-filling load_config_file: json.load raises for
\* a file that is not JSON, and update raises for a JSON value that is not an
\* object (a number, null), before it changes anything.
legacy_load_config_try(file) ==
    IF ~file.parses
    THEN Raised(Exc("JSONDecodeError", <<"Expecting value">>))
    ELSE IF ~file.is_object
    THEN Raised(Exc("TypeError", <<"object is not iterable">>))
    ELSE Returned(dict_update(get_default_config, file.mapping))

\* The default-filling load_config_file: what it returns, or the exception
\* that leaves it.
legacy_load_config_file(file) ==
    IF ~file.exists THEN Returned(get_default_config)
    ELSE LET r == legacy_load_config_try(file) IN
         IF r.raised THEN Returned(get_default_config) ELSE r

\* config.get(key, default) for each field, in __init__ of the older package.
legacy_init(config) ==
    [frame_width |-> IF "frame_width" \in config.keys THEN config.frame_width ELSE 64,
     frame_height |-> IF "frame_height" \in config.keys THEN config.frame_height ELSE 96,
     cols |-> IF "cols" \in config.keys THEN config.cols ELSE 8,
     rows |-> IF "rows" \in config.keys THEN config.rows ELSE 16,
     animations |-> IF "animations" \in config.keys THEN config.animations ELSE <<>>,
     background_color |-> IF "background_color" \in config.keys
                          THEN config.background_color ELSE Transparent]

\* The animation of the files' user mappings, named as the flat convention
\* names the frames of FlatStems.
WalkDown == <<"walk", "_", "down">>

LegacyAnimationMaps ==
    {<<>>} \cup {<<[name |-> WalkDown, row |-> 0, frames |-> k]>> : k \in 1..MaxFrames}

\* What a user's config file of the older package may hold: any subset of the
\* keys.
LegacyMappings ==
    UNION {{Mapping(ks, 2, 3, 2, 1, anims, Red) :
               anims \in IF "animations" \in ks THEN LegacyAnimationMaps ELSE {<<>>}} :
           ks \in SUBSET ConfigKeys}

LegacyConfigFiles ==
    {[exists |-> FALSE, parses |-> FALSE, is_object |-> FALSE, mapping |-> EmptyMapping],
     [exists |-> TRUE, parses |-> FALSE, is_object |-> FALSE, mapping |-> EmptyMapping],
     [exists |-> TRUE, parses |-> TRUE, is_object |-> FALSE, mapping |-> EmptyMapping]}
    \cup {[exists |-> TRUE, parses |-> TRUE, is_object |-> TRUE, mapping |-> m] :
             m \in LegacyMappings}

\* The flat directories the older package composes from.
LegacyDirs ==
    {NoDirectory}
    \cup {Directory([d \in DirNames |-> <<>>], l, {}) :
             l \in {<<>>, <<FlatStems[1]>>, <<FlatStems[2], FlatStems[1]>>,
                    <<FlatStems[3], FlatStems[2], FlatStems[1]>>}}

\* The loop over self.animations.items(), from the i-th animation on.
RECURSIVE process_animations(_, _, _, _, _)
process_animations(self, input_dir, found, st, i) ==
    IF i > Len(self.animations) THEN st
    ELSE process_animations(self, input_dir, found,
             process_animation(self, input_dir, found, st, self.animations[i]), i + 1)

\* The steps of generate_preview that can fail: copying the sheet and drawing
\* the grid lines, loading the font and drawing the labels, saving the file.
PreviewSteps == {"draw", "font", "save"}

\* Whether generate_preview raises when the given step fails ("none": no step
\* fails): only the font and label block sits in a try with a bare except.
generate_preview_raises(failing_step) == failing_step \in {"draw", "save"}

\* Whether generate_preview leaves a preview file when the given step fails.
generate_preview_writes(failing_step) == failing_step \in {"none", "font"}

\* generate_godot_config: the content of the metadata file.
generate_godot_config(self, sprite_path) ==
    [frame_width |-> self.frame_width,
     frame_height |-> self.frame_height,
     fps |-> 12,
     billboard_mode |-> TRUE,
     pixel_perfect |-> TRUE,
     texture_path |-> sprite_path,
     animations |-> [i \in 1..Len(self.animations) |->
                        [name |-> self.animations[i].name,
                         row |-> self.animations[i].row,
                         frames |-> self.animations[i].frames,
                         start_frame |-> 0]]]

----------------------------------------------------------------------------
(* The compose_sprite_sheet tool: action folders, derived configuration,   *)
(* staging                                                                 *)

Small == <<2, 3>>
Large == <<4, 3>>

\* An action folder: the number of its files frame_*.png and frame_*.jpg, the
\* number of its directories named frame_*.png, the size of its images, and
\* whether Image.open identifies them.
Folder(png, jpg, png_dirs, size, decodable) ==
    [present |-> TRUE, png |-> png, jpg |-> jpg, png_dirs |-> png_dirs,
     size |-> size, decodable |-> decodable]

NoFolder ==
    [present |-> FALSE, png |-> 0, jpg |-> 0, png_dirs |-> 0, size |-> Small,
     decodable |-> TRUE]

FolderKinds ==
    {NoFolder}
    \cup {Folder(p, j, 0, Small, TRUE) : p \in 0..MaxFrames, j \in 0..MaxFrames}
    \cup {Folder(1, 0, 1, Small, TRUE), Folder(0, 0, 1, Small, TRUE),
          Folder(0, 1, 1, Small, TRUE), Folder(1, 0, 0, Large, TRUE),
          Folder(1, 0, 0, Small, FALSE)}

NoToolInput == [exists |-> FALSE, folders |-> [d \in DirNames |-> NoFolder]]

\* The input directory given to the tool: absent, or holding any of the
\* action folders.
ToolInputs ==
    {NoToolInput} \cup {[exists |-> TRUE, folders |-> f] : f \in [DirNames -> FolderKinds]}

\* sorted(action_folders): the names of the folders present.
action_folders(input) ==
    LET Present(d) == input.folders[d].present
    IN SelectSeq(<<"idle", "walk">>, Present)

\* The frames of a folder in the first pass: frame_*.png that are files, or
\* else frame_*.jpg that are files.
frames_checked(folder) == IF folder.png > 0 THEN folder.png ELSE folder.jpg

\* The first pass: the base size, the largest frame count and the number of
\* frames, or the way the pass ends early.
RECURSIVE check_sizes(_, _, _)
check_sizes(input, names, acc) ==
    IF names = <<>> THEN acc
    ELSE LET folder == input.folders[Head(names)] IN
         IF frames_checked(folder) = 0 THEN check_sizes(input, Tail(names), acc)
         ELSE IF ~folder.decodable THEN [acc EXCEPT !.outcome = "raised"]
         ELSE IF acc.frame_size # <<>> /\ folder.size # acc.frame_size
         THEN [acc EXCEPT !.outcome = "mismatch"]
         ELSE check_sizes(input, Tail(names),
                  [acc EXCEPT !.frame_size = folder.size,
                              !.max_frames = IF frames_checked(folder) > @
                                             THEN frames_checked(folder) ELSE @,
                              !.all_frames = @ + frames_checked(folder)])

\* The frames of a folder in the second pass: whatever frame_*.png matches,
\* or else whatever frame_*.jpg matches.
frames_counted(folder) ==
    IF folder.png + folder.png_dirs > 0 THEN folder.png + folder.png_dirs
    ELSE folder.jpg

\* The second pass: animations_config, one row per folder with frames.
RECURSIVE derive_animations(_, _, _)
derive_animations(input, names, current_row) ==
    IF names = <<>> THEN <<>>
    ELSE LET folder == input.folders[Head(names)] IN
         IF frames_counted(folder) > 0
         THEN <<[name |-> Head(names), row |-> current_row,
                 frames |-> frames_counted(folder)]>>
              \o derive_animations(input, Tail(names), current_row + 1)
         ELSE derive_animations(input, Tail(names), current_row)

\* The config dictionary of the tool (name and padding, which the composer
\* does not read, left out).
derive_config(input, checked, background_color) ==
    Mapping(ConfigKeys, checked.frame_size[1], checked.frame_size[2],
            checked.max_frames,
            Len(derive_animations(input, action_folders(input), 0)),
            derive_animations(input, action_folders(input), 0),
            IF background_color = <<>> THEN Transparent ELSE background_color)

\* f"{i:03d}"
format_03d(i) ==
    <<DigitChars[((i \div 100) % 10) + 1], DigitChars[((i \div 10) % 10) + 1],
      DigitChars[(i % 10) + 1]>>

\* The entries of a folder the staging loop copies: what frame_*.png matches.
frames_staged(folder) == folder.png + folder.png_dirs

\* shutil.copy2 raises for an entry that is a directory.
staging_raises(input) ==
    \E d \in Range(action_folders(input)) : input.folders[d].png_dirs > 0

\* The temporary input directory after staging: 001.png, 002.png, ... in the
\* subdirectory of each folder with entries to copy.
staged_dir(input) ==
    [path |-> "_temp_frames", exists |-> TRUE,
     subdirs |-> [d \in DirNames |->
                     IF input.folders[d].present
                     THEN [i \in 1..frames_staged(input.folders[d]) |-> format_03d(i)]
                     ELSE <<>>],
     flat |-> <<>>, corrupt |-> {}]

----------------------------------------------------------------------------
(* The state machine                                                       *)

VARIABLES
    pc,                \* "idle", "loaded", "rejected", "constructed", "loop", "done",
                       \* "scanned"
    source,            \* the configuration given: a file or a dictionary
    config,            \* the mapping load_config_file returned
    raised,            \* the exception load_config_file or the constructor raised
    branch,            \* the except clause of the tool that handled it
    self,              \* the composer's fields
    input_dir,         \* the input directory of the running composition
    found_frames,      \* what find_frames returned
    sprite_sheet,      \* the canvas
    processed_frames,
    missing_frames,
    anim_idx,          \* position of the loop in self.animations
    result,            \* the dictionary create_sprite_sheet returns
    files,             \* the output files written
    first_run,         \* what the first of two runs on one directory produced
    legacy,            \* the older package: its config file, preview and outputs
    placement,         \* loops run interleaved: each animation's position, the order
    tool               \* the compose_sprite_sheet tool: its input, position and response

vars == <<pc, source, config, raised, branch, self, input_dir, found_frames,
          sprite_sheet, processed_frames, missing_frames, anim_idx, result, files,
          first_run, legacy, placement, tool>>

NoSource == [kind |-> "none", exists |-> FALSE, parses |-> FALSE, mapping |-> EmptyMapping]

FileSource(file) ==
    [kind |-> "file", exists |-> file.exists, parses |-> file.parses,
     mapping |-> file.mapping]

DictSource(m) == [kind |-> "dict", exists |-> TRUE, parses |-> TRUE, mapping |-> m]

\* The output location: whether the directory of the output path was made,
\* the image written, the metadata written, and the metadata's content.
NoFiles ==
    [parent_dir |-> FALSE, image |-> FALSE, metadata_written |-> FALSE,
     metadata |-> NoMetadata]

\* The older package before any of its calls: no config file given, no
\* preview asked for, none of its output files written.
NoLegacy ==
    [config_file |-> [exists |-> FALSE, parses |-> FALSE, is_object |-> FALSE,
                      mapping |-> EmptyMapping],
     generate_preview |-> FALSE, preview_step |-> "none",
     image |-> FALSE, preview |-> FALSE, preview_path |-> "",
     metadata_written |-> FALSE, godot_config |-> NoMetadata]

\* No step of an animation's loop has been taken.
NoPlacement == [pos |-> <<0, 0>>, order |-> <<>>]

\* The tool before it is called.
NoTool ==
    [pc |-> "start", input |-> NoToolInput, output_dir |-> FALSE, temp_dir |-> FALSE,
     config |-> EmptyMapping, response |-> <<>>]

\* No run has been followed by a second one.
NoRun ==
    [again |-> FALSE, result |-> InitialResult, sprite_sheet |-> NoImage,
     metadata |-> NoMetadata]

Init ==
    /\ pc = "idle"
    /\ source = NoSource
    /\ config = EmptyMapping
    /\ raised = NoException
    /\ branch = "none"
    /\ self = NoComposer
    /\ input_dir = NoDirectory
    /\ found_frames = <<>>
    /\ sprite_sheet = NoImage
    /\ processed_frames = 0
    /\ missing_frames = 0
    /\ anim_idx = 0
    /\ result = InitialResult
    /\ files = NoFiles
    /\ first_run = NoRun
    /\ legacy = NoLegacy
    /\ placement = NoPlacement
    /\ tool = NoTool

composition_vars ==
    <<input_dir, found_frames, sprite_sheet, processed_frames, missing_frames,
      anim_idx, result, files, first_run>>

\* config = SpriteSheetComposer.load_config_file(path)
LoadConfigFile(file) ==
    /\ pc = "idle"
    /\ source' = FileSource(file)
    /\ LET r == load_config_file(file) IN
         IF r.raised
         THEN /\ raised' = r.exc
              /\ branch' = except_branch(r.exc)
              /\ pc' = "rejected"
              /\ UNCHANGED config
         ELSE /\ config' = r.value
              /\ pc' = "loaded"
              /\ UNCHANGED <<raised, branch>>
    /\ UNCHANGED <<self, composition_vars, legacy, placement, tool>>

\* composer = SpriteSheetComposer(config), for the mapping m
Construct(m) ==
    LET r == SpriteSheetComposer(m) IN
      /\ IF r.raised
         THEN /\ raised' = r.exc
              /\ branch' = except_branch(r.exc)
              /\ pc' = "rejected"
              /\ UNCHANGED self
         ELSE /\ self' = r.value
              /\ pc' = "constructed"
              /\ UNCHANGED <<raised, branch>>
      /\ UNCHANGED <<config, composition_vars, legacy, placement, tool>>

\* The constructor applied to the mapping just loaded from a file.
ConstructFromFile ==
    /\ pc = "loaded"
    /\ Construct(config)
    /\ UNCHANGED source

\* The constructor applied to a dictionary built by the caller.
ConstructFromDict(m) ==
    /\ pc = "idle"
    /\ source' = DictSource(m)
    /\ Construct(m)

\* As scan_input, with the frame set of the first call kept on the composer.
scan_input_cached(dir) == IF pc = "done" THEN found_frames ELSE find_frames(dir)

\* found_frames = self.find_frames(input_dir)
scan_input(dir) == find_frames(dir)

\* As create_sprite_sheet, with the two counters kept on the composer and
\* never reset.
create_sprite_sheet_counters_kept(dir) ==
    /\ input_dir' = dir
    /\ IF ~dir.exists
       THEN /\ result' = FailureResult(InitialResult, find_frames_raises(dir))
            /\ pc' = "done"
            /\ UNCHANGED <<found_frames, sprite_sheet, anim_idx>>
       ELSE /\ found_frames' = scan_input(dir)
            /\ IF Image_new_raises(self)
               THEN /\ result' = FailureResult(InitialResult,
                                   Exc("ValueError", <<"Width and height must be >= 0">>))
                    /\ pc' = "done"
                    /\ UNCHANGED <<sprite_sheet, anim_idx>>
               ELSE /\ sprite_sheet' = Image_new(self)
                    /\ anim_idx' = 1
                    /\ result' = InitialResult
                    /\ pc' = "loop"
    /\ UNCHANGED <<processed_frames, missing_frames>>
    /\ UNCHANGED <<source, config, raised, branch, self, legacy, placement, tool>>

\* create_sprite_sheet up to the loop: find_frames and the canvas.
create_sprite_sheet(dir) ==
    /\ input_dir' = dir
    /\ IF ~dir.exists
       THEN /\ result' = FailureResult(InitialResult, find_frames_raises(dir))
            /\ pc' = "done"
            /\ UNCHANGED <<found_frames, sprite_sheet, anim_idx>>
       ELSE /\ found_frames' = scan_input(dir)
            /\ IF Image_new_raises(self)
               THEN /\ result' = FailureResult(InitialResult,
                                   Exc("ValueError", <<"Width and height must be >= 0">>))
                    /\ pc' = "done"
                    /\ UNCHANGED <<sprite_sheet, anim_idx>>
               ELSE /\ sprite_sheet' = Image_new(self)
                    /\ anim_idx' = 1
                    /\ result' = InitialResult
                    /\ pc' = "loop"
    /\ processed_frames' = 0
    /\ missing_frames' = 0
    /\ UNCHANGED <<source, config, raised, branch, self, legacy, placement, tool>>

\* composer.create_sprite_sheet(input_dir, output_path), first call
StartComposition(dir) ==
    /\ pc = "constructed"
    /\ create_sprite_sheet(dir)
    /\ UNCHANGED <<files, first_run>>

\* The same call once more: same composer, same directory, unchanged, and the
\* same output path, where the files of the first call lie.
ComposeAgain ==
    /\ pc = "done"
    /\ ~first_run.again
    /\ first_run' = [again |-> TRUE, result |-> result,
                     sprite_sheet |-> sprite_sheet, metadata |-> files.metadata]
    /\ create_sprite_sheet(input_dir)
    /\ UNCHANGED files

\* One iteration of the loop over the animations.
ProcessAnimation ==
    /\ pc = "loop"
    /\ anim_idx <= Len(self.animations)
    /\ LET st == process_animation(self, input_dir, found_frames,
                     [sprite_sheet |-> sprite_sheet,
                      processed_frames |-> processed_frames,
                      missing_frames |-> missing_frames],
                     self.animations[anim_idx])
       IN /\ sprite_sheet' = st.sprite_sheet
          /\ processed_frames' = st.processed_frames
          /\ missing_frames' = st.missing_frames
    /\ anim_idx' = anim_idx + 1
    /\ UNCHANGED <<pc, source, config, raised, branch, self, input_dir,
                   found_frames, result, files, first_run, legacy, placement, tool>>

\* After the loop: the image and the metadata are written and the result filled.
\* (A second call meets the imaging library of the first: it writes an image
\* without pixels if and only if the first call did.)
SaveOutputs ==
    /\ pc = "loop"
    /\ anim_idx > Len(self.animations)
    /\ (first_run.again /\ (sprite_sheet.width = 0 \/ sprite_sheet.height = 0))
          => first_run.result.success
    /\ files' = [parent_dir |-> TRUE, image |-> TRUE, metadata_written |-> TRUE,
                 metadata |-> generate_sprite_config(self)]
    /\ result' = SuccessResult(self,
                     [result EXCEPT !.output_path = "spritesheet.png",
                                    !.config_path = "spritesheet.json"],
                     processed_frames, missing_frames)
    /\ pc' = "done"
    /\ UNCHANGED <<source, config, raised, branch, self, input_dir, found_frames,
                   sprite_sheet, processed_frames, missing_frames, anim_idx,
                   first_run, legacy, placement, tool>>

\* An image without pixels: whether the PNG encoder writes it depends on the
\* imaging library; when it raises, the except clause reports the failure.
SaveEmptyImageFails ==
    /\ pc = "loop"
    /\ anim_idx > Len(self.animations)
    /\ sprite_sheet.width = 0 \/ sprite_sheet.height = 0
    /\ first_run.again => ~first_run.result.success
    /\ result' = FailureResult(result, Exc("SystemError", <<"cannot write empty image">>))
    /\ files' = [files EXCEPT !.parent_dir = TRUE]
    /\ pc' = "done"
    /\ UNCHANGED <<source, config, raised, branch, self, input_dir, found_frames,
                   sprite_sheet, processed_frames, missing_frames, anim_idx,
                   first_run, legacy, placement, tool>>

\* find_frames of the flat convention applied to a flat directory.
FlatFindFrames(dir) ==
    /\ pc = "idle"
    /\ input_dir' = dir
    /\ found_frames' = flat_find_frames(dir)
    /\ pc' = "scanned"
    /\ UNCHANGED <<source, config, raised, branch, self, sprite_sheet,
                   processed_frames, missing_frames, anim_idx, result, files,
                   first_run, legacy, placement, tool>>

Next ==
    \/ \E file \in ConfigFiles : LoadConfigFile(file)
    \/ ConstructFromFile
    \/ \E m \in Mappings \cup {EmptyMapping} : ConstructFromDict(m)
    \/ \E dir \in InputDirs : StartComposition(dir)
    \/ ComposeAgain
    \/ \E dir \in FlatDirs : FlatFindFrames(dir)
    \/ ProcessAnimation
    \/ SaveOutputs
    \/ SaveEmptyImageFails

Spec == Init /\ [][Next]_vars

----------------------------------------------------------------------------
(* Output that cannot be written                                           *)

\* The loop is over and the run has not returned.
LoopOver == pc = "loop" /\ anim_idx > Len(self.animations)

write_unchanged ==
    <<source, config, raised, branch, self, input_dir, found_frames, sprite_sheet,
      processed_frames, missing_frames, anim_idx, first_run, legacy, placement, tool>>

\* output_path.parent.mkdir raises (no permission): nothing is written.
MkdirFails ==
    /\ LoopOver
    /\ result' = FailureResult(result, Exc("PermissionError", <<"Permission denied">>))
    /\ pc' = "done"
    /\ UNCHANGED files
    /\ UNCHANGED write_unchanged

\* sprite_sheet.save raises (no permission, disk full): the image file is
\* absent, or present with part of its content.
SaveImageFails ==
    /\ LoopOver
    /\ \E partial \in BOOLEAN :
          files' = [files EXCEPT !.parent_dir = TRUE, !.image = partial]
    /\ result' = FailureResult(result, Exc("OSError", <<"No space left on device">>))
    /\ pc' = "done"
    /\ UNCHANGED write_unchanged

\* generate_sprite_config raises in open or json.dump, after the image was
\* saved and its path put into the result: the metadata file is absent, or
\* present with part of its content.
SaveMetadataFails ==
    /\ LoopOver
    /\ \E partial \in BOOLEAN :
          files' = [files EXCEPT !.parent_dir = TRUE, !.image = TRUE,
                                 !.metadata_written = partial]
    /\ result' = FailureResult([result EXCEPT !.output_path = "spritesheet.png"],
                               Exc("OSError", <<"No space left on device">>))
    /\ pc' = "done"
    /\ UNCHANGED write_unchanged

\* The configurations and directories composed where writing may fail.
WriteMappings == {m \in GoodMappings : m.cols = 2 /\ m.rows = 2}

WriteDirs == {d \in InputDirs : d.corrupt = {}}

WriteNext ==
    \/ \E m \in WriteMappings : ConstructFromDict(m)
    \/ \E dir \in WriteDirs : StartComposition(dir)
    \/ ProcessAnimation
    \/ SaveOutputs
    \/ MkdirFails
    \/ SaveImageFails
    \/ SaveMetadataFails

\* Composition at an output location where any of the writes may fail.
WriteSpec == Init /\ [][WriteNext]_vars

----------------------------------------------------------------------------
(* The older package's calls                                               *)

legacy_unchanged == <<raised, branch, anim_idx, files, first_run, placement, tool>>

\* config = composer.load_config_file(path) of the older package
LegacyLoadConfigFile(file) ==
    /\ pc = "idle"
    /\ source' = FileSource(file)
    /\ legacy' = [legacy EXCEPT !.config_file = file]
    /\ LET r == legacy_load_config_file(file) IN
         IF r.raised
         THEN /\ raised' = r.exc
              /\ pc' = "rejected"
              /\ UNCHANGED config
         ELSE /\ config' = r.value
              /\ pc' = "loaded"
              /\ UNCHANGED raised
    /\ UNCHANGED <<branch, self, composition_vars, placement, tool>>

\* SpriteSheetComposer(config) of the older package, for the mapping loaded
LegacyConstructFromFile ==
    /\ pc = "loaded"
    /\ self' = legacy_init(config)
    /\ pc' = "constructed"
    /\ UNCHANGED <<source, config, raised, branch, composition_vars, legacy, placement, tool>>

\* SpriteSheetComposer() of the older package: config is None
LegacyConstructDefault ==
    /\ pc = "idle"
    /\ self' = legacy_init(get_default_config)
    /\ pc' = "constructed"
    /\ UNCHANGED <<source, config, raised, branch, composition_vars, legacy, placement, tool>>

\* create_sprite_sheet(input_dir, output_path, generate_preview) of the older
\* package at a writable output location; failing_step is the step of
\* generate_preview that fails, "none" when none does.
LegacyCreateSpriteSheet(dir, generate_preview, failing_step) ==
    /\ pc = "constructed"
    /\ ~generate_preview => failing_step = "none"
    /\ input_dir' = dir
    /\ pc' = "done"
    /\ IF ~dir.exists
       THEN /\ result' = FailureResult(InitialResult, find_frames_raises(dir))
            /\ legacy' = [legacy EXCEPT !.generate_preview = generate_preview,
                                        !.preview_step = failing_step]
            /\ UNCHANGED <<found_frames, sprite_sheet, processed_frames, missing_frames>>
       ELSE LET found == flat_find_frames(dir)
                st == process_animations(self, dir, found,
                          [sprite_sheet |-> Image_new(self),
                           processed_frames |-> 0, missing_frames |-> 0], 1)
                saved == [InitialResult EXCEPT !.output_path = "spritesheet.png"]
            IN /\ found_frames' = found
               /\ sprite_sheet' = st.sprite_sheet
               /\ processed_frames' = st.processed_frames
               /\ missing_frames' = st.missing_frames
               /\ IF generate_preview /\ generate_preview_raises(failing_step)
                  THEN /\ result' = FailureResult(saved,
                                       Exc("OSError", <<"preview", failing_step>>))
                       /\ legacy' = [legacy EXCEPT
                                        !.generate_preview = generate_preview,
                                        !.preview_step = failing_step,
                                        !.image = TRUE]
                  ELSE /\ result' = SuccessResult(self,
                                       [saved EXCEPT !.config_path = "spritesheet.json"],
                                       st.processed_frames, st.missing_frames)
                       /\ legacy' = [legacy EXCEPT
                                        !.generate_preview = generate_preview,
                                        !.preview_step = failing_step,
                                        !.image = TRUE,
                                        !.preview = generate_preview
                                                    /\ generate_preview_writes(failing_step),
                                        !.preview_path =
                                            IF generate_preview
                                            THEN "spritesheet.preview.png" ELSE "",
                                        !.metadata_written = TRUE,
                                        !.godot_config =
                                            generate_godot_config(self, "spritesheet.png")]
    /\ UNCHANGED <<source, config, self>>
    /\ UNCHANGED legacy_unchanged

LegacyNext ==
    \/ \E file \in LegacyConfigFiles : LegacyLoadConfigFile(file)
    \/ LegacyConstructFromFile
    \/ LegacyConstructDefault
    \/ \E dir \in LegacyDirs, generate_preview \in BOOLEAN,
          failing_step \in PreviewSteps \cup {"none"} :
            LegacyCreateSpriteSheet(dir, generate_preview, failing_step)

\* The older package: load or default, construct, compose once.
LegacySpec == Init /\ [][LegacyNext]_vars

----------------------------------------------------------------------------
(* The animations' loops run in any order, interleaved                     *)

\* min(len(frame_paths), expected_frames) of the i-th animation; no frame
\* when the animation was not found.
actual_frames_of(i) ==
    IF self.animations[i].name \in DOMAIN found_frames
    THEN min(Len(found_frames[self.animations[i].name]), self.animations[i].frames)
    ELSE 0

placing_unchanged ==
    <<pc, source, config, raised, branch, self, input_dir, found_frames, anim_idx,
      result, files, first_run, legacy, tool>>

\* One iteration of the inner loop of the i-th animation: its next frame.
PlaceFrame(i) ==
    /\ pc = "loop" /\ anim_idx = 1
    /\ i \in 1..Len(self.animations)
    /\ placement.pos[i] < actual_frames_of(i)
    /\ LET st == place_frames(self, input_dir,
                     [sprite_sheet |-> sprite_sheet,
                      processed_frames |-> processed_frames,
                      missing_frames |-> missing_frames],
                     self.animations[i].row,
                     found_frames[self.animations[i].name],
                     placement.pos[i], placement.pos[i] + 1)
       IN /\ sprite_sheet' = st.sprite_sheet
          /\ processed_frames' = st.processed_frames
          /\ missing_frames' = st.missing_frames
    /\ placement' = [pos |-> [placement.pos EXCEPT ![i] = @ + 1],
                     order |-> Append(placement.order, i)]
    /\ UNCHANGED placing_unchanged

\* The end of the i-th animation's iteration: the frames short of the
\* expected count, or all of them for an animation not found, are missing.
FinishAnimation(i) ==
    /\ pc = "loop" /\ anim_idx = 1
    /\ i \in 1..Len(self.animations)
    /\ placement.pos[i] = actual_frames_of(i)
    /\ missing_frames' =
          missing_frames + (self.animations[i].frames - actual_frames_of(i))
    /\ placement' = [pos |-> [placement.pos EXCEPT ![i] = @ + 1],
                     order |-> Append(placement.order, i)]
    /\ UNCHANGED <<sprite_sheet, processed_frames>>
    /\ UNCHANGED placing_unchanged

\* Every animation's loop has ended: the loop over the animations is over.
AllPlaced ==
    /\ pc = "loop" /\ anim_idx = 1
    /\ \A i \in 1..Len(self.animations) : placement.pos[i] = actual_frames_of(i) + 1
    /\ anim_idx' = Len(self.animations) + 1
    /\ UNCHANGED <<pc, source, config, raised, branch, self, input_dir, found_frames,
                   sprite_sheet, processed_frames, missing_frames, result, files,
                   first_run, legacy, placement, tool>>

\* Configurations with two animations on a grid of two columns and two rows.
OrderMappings ==
    {m \in GoodMappings : m.cols = 2 /\ m.rows = 2 /\ Len(m.animations) = 2}

OrderDirs == {d \in InputDirs : Len(d.subdirs["idle"]) <= 2}

OrderNext ==
    \/ \E m \in OrderMappings : ConstructFromDict(m)
    \/ \E dir \in OrderDirs : StartComposition(dir)
    \/ \E i \in 1..2 : PlaceFrame(i)
    \/ \E i \in 1..2 : FinishAnimation(i)
    \/ AllPlaced
    \/ SaveOutputs

\* Composition with the steps of the animations' loops taken in any order.
OrderSpec == Init /\ [][OrderNext]_vars

----------------------------------------------------------------------------
(* A second call after the input directory changed                        *)

\* The same composer called again on the same path, whose content is now
\* that of changed.
ComposeAfterChange(changed) ==
    /\ pc = "done"
    /\ ~first_run.again
    /\ changed.path = input_dir.path
    /\ changed # input_dir
    /\ first_run' = [again |-> TRUE, result |-> result,
                     sprite_sheet |-> sprite_sheet, metadata |-> files.metadata]
    /\ create_sprite_sheet(changed)
    /\ UNCHANGED files

RescanMappings == {m \in GoodMappings : m.cols = 2 /\ m.rows = 2}

\* The contents the input directory has at one call or the other.
RescanDirs ==
    {d \in InputDirs : d.corrupt = {} /\ Len(d.subdirs["idle"]) <= 2
                       /\ Len(d.subdirs["walk"]) <= 1}

RescanNext ==
    \/ \E m \in RescanMappings : ConstructFromDict(m)
    \/ \E dir \in RescanDirs : StartComposition(dir)
    \/ \E changed \in RescanDirs : ComposeAfterChange(changed)
    \/ ProcessAnimation
    \/ SaveOutputs

\* Two calls on one composer, the directory changed in between.
RescanSpec == Init /\ [][RescanNext]_vars

----------------------------------------------------------------------------
(* The compose_sprite_sheet tool                                           *)

tool_call_unchanged ==
    <<config, branch, input_dir, found_frames, sprite_sheet, processed_frames,
      missing_frames, anim_idx, result, files, first_run, legacy, placement>>

\* The tool returns the response without having made a composer.
ToolReturns(input, output_dir, response) ==
    /\ tool' = [tool EXCEPT !.pc = "returned", !.input = input,
                            !.output_dir = output_dir, !.response = response]
    /\ UNCHANGED <<pc, source, self, raised>>

\* compose_sprite_sheet(input_dir, output_dir, background_color) up to the
\* composer: the checks, the two passes over the action folders, the config.
ToolCall(input, background_color) ==
    /\ tool.pc = "start" /\ pc = "idle"
    /\ IF ~input.exists
       THEN ToolReturns(input, FALSE, <<"input directory does not exist">>)
       ELSE IF action_folders(input) = <<>>
       THEN ToolReturns(input, TRUE, <<"no action folder">>)
       ELSE LET checked == check_sizes(input, action_folders(input),
                               [frame_size |-> <<>>, max_frames |-> 0,
                                all_frames |-> 0, outcome |-> "checked"])
            IN IF checked.outcome = "raised"
               THEN ToolReturns(input, TRUE,
                                <<"processing failed", "cannot identify image file">>)
               ELSE IF checked.outcome = "mismatch"
               THEN ToolReturns(input, TRUE, <<"image sizes differ">>)
               ELSE IF checked.all_frames = 0
               THEN ToolReturns(input, TRUE, <<"no frame file">>)
               ELSE LET derived == derive_config(input, checked, background_color)
                        r == SpriteSheetComposer(derived)
                    IN /\ source' = DictSource(derived)
                       /\ IF r.raised
                          THEN /\ raised' = r.exc
                               /\ tool' = [tool EXCEPT
                                              !.pc = "returned", !.input = input,
                                              !.output_dir = TRUE, !.config = derived,
                                              !.response = <<"processing failed">>
                                                           \o r.exc.msg]
                               /\ UNCHANGED <<pc, self>>
                          ELSE /\ self' = r.value
                               /\ pc' = "constructed"
                               /\ tool' = [tool EXCEPT
                                              !.pc = "constructed", !.input = input,
                                              !.output_dir = TRUE, !.config = derived]
                               /\ UNCHANGED raised
    /\ UNCHANGED tool_call_unchanged

tool_unchanged ==
    <<pc, source, config, raised, branch, self, input_dir, found_frames, sprite_sheet,
      processed_frames, missing_frames, anim_idx, result, files, first_run, legacy,
      placement>>

\* The temporary directory is made and the frames are copied into it; a copy
\* that raises leaves the tool through its except clause.
ToolStage ==
    /\ tool.pc = "constructed"
    /\ IF staging_raises(tool.input)
       THEN tool' = [tool EXCEPT !.pc = "returned", !.temp_dir = TRUE,
                                 !.response = <<"processing failed", "Is a directory">>]
       ELSE tool' = [tool EXCEPT !.pc = "staged", !.temp_dir = TRUE]
    /\ UNCHANGED tool_unchanged

\* shutil.copy2 raises for a reason outside the input (no space left).
ToolStageFails ==
    /\ tool.pc = "constructed"
    /\ \E d \in DirNames : frames_staged(tool.input.folders[d]) > 0
    /\ tool' = [tool EXCEPT !.pc = "returned", !.temp_dir = TRUE,
                            !.response = <<"processing failed", "No space left on device">>]
    /\ UNCHANGED tool_unchanged

\* composer.create_sprite_sheet(str(temp_input_dir), str(output_file))
ToolCompose ==
    /\ tool.pc = "staged"
    /\ StartComposition(staged_dir(tool.input))

\* After the composition: rmtree, then the response for either outcome.
ToolRespond ==
    /\ tool.pc = "staged" /\ pc = "done"
    /\ tool' = [tool EXCEPT
                   !.pc = "returned", !.temp_dir = FALSE,
                   !.response = IF result.success THEN <<"sprite sheet generated">>
                                ELSE result.message]
    /\ UNCHANGED tool_unchanged

ToolNext ==
    \/ \E input \in ToolInputs, background_color \in {<<>>, Red} :
          ToolCall(input, background_color)
    \/ ToolStage
    \/ ToolStageFails
    \/ ToolCompose
    \/ ProcessAnimation
    \/ SaveOutputs
    \/ SaveImageFails
    \/ ToolRespond

\* One call of the tool.
ToolSpec == Init /\ [][ToolNext]_vars

----------------------------------------------------------------------------
(* Properties                                                              *)

\* The data model's dimensions: all four positive.
ValidDims(c) ==
    c.frame_width > 0 /\ c.frame_height > 0 /\ c.cols > 0 /\ c.rows > 0

\* A composition whose input directory was scanned by a composer with
\* positive dimensions has returned.
Composed == pc = "done" /\ input_dir.exists /\ ValidDims(self)

\* The step of the loop that handles one animation.
AnimationStep ==
    /\ pc = "loop"
    /\ anim_idx <= Len(self.animations)
    /\ anim_idx' = anim_idx + 1
    /\ ValidDims(self)

Discovered(a) == a.name \in DOMAIN found_frames

\* The frames of the animation the loop tries to place: the first
\* frames-many of those found, or all of them when fewer were found.
Attempted(a) ==
    IF Len(found_frames[a.name]) <= a.frames THEN found_frames[a.name]
    ELSE SubSeq(found_frames[a.name], 1, a.frames)

Decodes(p) == p \notin input_dir.corrupt

AllDecode(paths) == \A i \in 1..Len(paths) : Decodes(paths[i])

CountOf(paths, bad) == Cardinality({i \in 1..Len(paths) : Decodes(paths[i]) = ~bad})

\* The step wrote exactly the cells <<i, row>> of the frames among paths that
\* decode, frame i+1 of the list onto column i, and no other cell.
StepPlaces(a, paths) ==
    /\ DOMAIN sprite_sheet'.cells = DOMAIN sprite_sheet.cells
    /\ \A c \in DOMAIN sprite_sheet.cells :
         sprite_sheet'.cells[c] =
            IF c[2] = a.row /\ c[1] < Len(paths) /\ Decodes(paths[c[1] + 1])
            THEN [sprite_sheet.cells[c] EXCEPT !.layers = Append(@, paths[c[1] + 1])]
            ELSE sprite_sheet.cells[c]

\* paths are distinct files of the animation's subdirectory, ascending in
\* their parsed index, and no other parsable file of it has a smaller index
\* than one of them.
SmallestIndices(a, paths) ==
    /\ \A i \in 1..Len(paths) :
         /\ paths[i].dir = a.name
         /\ paths[i].stem \in StemsIn(input_dir, a.name)
         /\ int_parses(paths[i].stem)
    /\ \A i, j \in 1..Len(paths) :
         i < j => paths[i] # paths[j] /\ int(paths[i].stem) <= int(paths[j].stem)
    /\ \A st \in StemsIn(input_dir, a.name) :
         (int_parses(st) /\ st \notin {paths[i].stem : i \in 1..Len(paths)})
            => \A i \in 1..Len(paths) : int(paths[i].stem) <= int(st)

\* C1: a successful create_sprite_sheet allocated a canvas of
\* (cols * frame_width) by (rows * frame_height) pixels and reports the same two
\* values as sheet_width and sheet_height, whatever frames were found.
C1_GridSizing ==
    (pc = "done" /\ result.success) =>
        /\ sprite_sheet.width = self.cols * self.frame_width
        /\ sprite_sheet.height = self.rows * self.frame_height
        /\ result.sheet_width = self.cols * self.frame_width
        /\ result.sheet_height = self.rows * self.frame_height

C1_Witness ==
    /\ pc = "done"
    /\ result.success
    /\ result.sheet_width = 2
    /\ result.sheet_height = 6
    /\ result.processed_frames = 1
    /\ result.missing_frames = 2

Surplus(a) == Discovered(a) /\ Len(found_frames[a.name]) > a.frames

C2_Original_Step ==
    LET a == self.animations[anim_idx] IN
    (AnimationStep /\ Surplus(a)) =>
        /\ SmallestIndices(a, Attempted(a))
        /\ Len(Attempted(a)) = a.frames
        /\ processed_frames' = processed_frames + a.frames
        /\ missing_frames' = missing_frames
        /\ \A c \in DOMAIN sprite_sheet.cells :
             sprite_sheet'.cells[c] =
                IF c[2] = a.row /\ c[1] < a.frames
                THEN [sprite_sheet.cells[c] EXCEPT
                         !.layers = Append(@, Attempted(a)[c[1] + 1])]
                ELSE sprite_sheet.cells[c]

C2_Step ==
    LET a == self.animations[anim_idx] IN
    (AnimationStep /\ Surplus(a) /\ AllDecode(Attempted(a))) =>
        /\ SmallestIndices(a, Attempted(a))
        /\ Len(Attempted(a)) = a.frames
        /\ processed_frames' = processed_frames + a.frames
        /\ missing_frames' = missing_frames
        /\ StepPlaces(a, Attempted(a))

C2_Succeeds ==
    (Composed /\ \E i \in 1..Len(self.animations) : Surplus(self.animations[i]))
        => result.success

\* C2 as claimed: for an animation with more frames discovered than its frame
\* count k (in a configuration with positive dimensions), handling the
\* animation places the k frames with the smallest parsed indices in columns
\* 0..k-1, counts k processed and nothing missing, and the run succeeds.
C2_Original == []C2_Succeeds /\ [][C2_Original_Step]_vars

\* C2 (amended): for an animation with more frames discovered than its frame
\* count k (in a configuration with positive dimensions), whose k frames with
\* the smallest parsed indices all decode, handling the animation places exactly
\* those k frames in columns 0..k-1 in index order, counts k processed and
\* nothing missing; the surplus is ignored and the run succeeds.
C2_FrameCap == []C2_Succeeds /\ [][C2_Step]_vars

C2_Witness ==
    /\ pc = "done"
    /\ result.success
    /\ Len(self.animations) = 1
    /\ LET a == self.animations[1] IN
         /\ a.frames = 2
         /\ Surplus(a)
         /\ AllDecode(Attempted(a))
         /\ [dir |-> a.name, stem |-> <<"1", "0">>] \in input_dir.corrupt
         /\ sprite_sheet.cells[<<0, a.row>>].layers = <<[dir |-> a.name, stem |-> <<"1">>]>>
         /\ sprite_sheet.cells[<<1, a.row>>].layers = <<[dir |-> a.name, stem |-> <<"2">>]>>
         /\ result.processed_frames = 2
         /\ result.missing_frames = 0

\* No file of the animation's subdirectory has a name that parses to an index
\* (no such subdirectory, or none of its files does).
NothingOnDisk(a) == {st \in StemsIn(input_dir, a.name) : int_parses(st)} = {}

C3_Step ==
    LET a == self.animations[anim_idx] IN
    (AnimationStep /\ NothingOnDisk(a)) =>
        /\ missing_frames' = missing_frames + a.frames
        /\ processed_frames' = processed_frames
        /\ sprite_sheet' = sprite_sheet

C3_Succeeds ==
    (Composed /\ \E i \in 1..Len(self.animations) : NothingOnDisk(self.animations[i]))
        => result.success

\* C3: for a configured animation with frame count k of which no frame is on
\* disk (in a configuration with positive dimensions and an input directory
\* that exists), handling the animation adds exactly k to missing_frames,
\* leaves processed_frames unchanged and writes no cell, and the run succeeds.
C3_MissingAccounting == []C3_Succeeds /\ [][C3_Step]_vars

C3_Witness ==
    /\ pc = "done"
    /\ result.success
    /\ Len(self.animations) = 1
    /\ self.animations[1].frames = 2
    /\ NothingOnDisk(self.animations[1])
    /\ input_dir.subdirs["walk"] # <<>>
    /\ result.missing_frames = 2
    /\ result.processed_frames = 0
    /\ \A c \in DOMAIN sprite_sheet.cells : sprite_sheet.cells[c].layers = <<>>

Shortfall(a) ==
    /\ Discovered(a)
    /\ 0 < Len(found_frames[a.name])
    /\ Len(found_frames[a.name]) < a.frames
    /\ AllDecode(found_frames[a.name])

C4_Step ==
    LET a == self.animations[anim_idx] IN
    (AnimationStep /\ Shortfall(a)) =>
        /\ StepPlaces(a, found_frames[a.name])
        /\ processed_frames' = processed_frames + Len(found_frames[a.name])
        /\ missing_frames' = missing_frames + (a.frames - Len(found_frames[a.name]))

C4_Succeeds ==
    (Composed /\ \E i \in 1..Len(self.animations) : Shortfall(self.animations[i]))
        => result.success

\* C4: for an animation with frame count k of which f frames are discovered,
\* 0 < f < k, all decodable (in a configuration with positive dimensions),
\* handling the animation places the f frames in columns 0..f-1 of its row,
\* writes no other cell, adds f to processed_frames and k - f to
\* missing_frames, and the run succeeds.
C4_PartialRow == []C4_Succeeds /\ [][C4_Step]_vars

C4_Witness ==
    /\ pc = "done"
    /\ result.success
    /\ self.cols = 2
    /\ Len(self.animations) = 1
    /\ LET a == self.animations[1] IN
         /\ a.frames = 2
         /\ a.row = 0
         /\ Shortfall(a)
         /\ sprite_sheet.cells[<<0, 0>>].layers = <<found_frames[a.name][1]>>
         /\ sprite_sheet.cells[<<1, 0>>].layers = <<>>
    /\ result.processed_frames = 1
    /\ result.missing_frames = 1

\* One of the frames the loop tries to place does not decode.
FrameFails(a) == Discovered(a) /\ ~AllDecode(Attempted(a))

C5_Step ==
    LET a == self.animations[anim_idx] IN
    (AnimationStep /\ FrameFails(a)) =>
        /\ StepPlaces(a, Attempted(a))
        /\ processed_frames' = processed_frames + CountOf(Attempted(a), FALSE)
        /\ missing_frames' =
              missing_frames + CountOf(Attempted(a), TRUE)
                             + (a.frames - Len(Attempted(a)))
        /\ pc' = "loop"

C5_Succeeds ==
    (Composed /\ \E i \in 1..Len(self.animations) : FrameFails(self.animations[i]))
        => result.success

\* C5: a discovered frame that fails to load (in a configuration with positive
\* dimensions) adds one to missing_frames and nothing to processed_frames and
\* leaves its cell unwritten; the frames after it are placed in their own
\* columns, the loop goes on to the next animation, and the run succeeds.
C5_FrameFailure == []C5_Succeeds /\ [][C5_Step]_vars

C5_Witness ==
    /\ pc = "done"
    /\ result.success
    /\ self.cols = 2
    /\ Len(self.animations) = 2
    /\ self.animations[1].frames = 2
    /\ self.animations[1].row = 0
    /\ self.animations[2].frames = 1
    /\ self.animations[2].row = 1
    /\ input_dir.corrupt = {[dir |-> "idle", stem |-> <<"1">>]}
    /\ found_frames["idle"] = <<[dir |-> "idle", stem |-> <<"1">>],
                                [dir |-> "idle", stem |-> <<"2">>]>>
    /\ Discovered(self.animations[2])
    /\ sprite_sheet.cells[<<0, 0>>].layers = <<>>
    /\ sprite_sheet.cells[<<1, 0>>].layers = <<[dir |-> "idle", stem |-> <<"2">>]>>
    /\ sprite_sheet.cells[<<0, 1>>].layers = <<[dir |-> "walk", stem |-> <<"1">>]>>
    /\ result.processed_frames = 2
    /\ result.missing_frames = 1

\* The background colour the configuration asks for: its background_color, or
\* fully transparent when it has none.
ConfiguredBackground ==
    IF "background_color" \in source.mapping.keys
    THEN source.mapping.background_color ELSE Transparent

\* C6: after a successful run every cell of the grid into which no frame was
\* placed holds exactly the configured background colour.
C6_Background ==
    (pc = "done" /\ result.success) =>
        \A c \in (0..(self.cols - 1)) \X (0..(self.rows - 1)) :
            /\ c \in DOMAIN sprite_sheet.cells
            /\ sprite_sheet.cells[c].layers = <<>>
                  => sprite_sheet.cells[c].base = ConfiguredBackground

C6_Witness ==
    /\ pc = "done"
    /\ result.success
    /\ ConfiguredBackground = Red
    /\ self.rows = 2
    /\ Len(self.animations) = 1
    /\ self.animations[1].row = 0
    /\ sprite_sheet.cells[<<0, 0>>].layers # <<>>
    /\ sprite_sheet.cells[<<0, 1>>].layers = <<>>
    /\ sprite_sheet.cells[<<0, 1>>].base = Red

\* The required fields a mapping does not hold.
MissingOf(m) == {f \in Range(required_fields) : f \notin m.keys}

\* A mapping was given, in a file that parsed or as a dictionary.
MappingGiven == source.kind \in {"file", "dict"} /\ source.exists /\ source.parses

\* C7 as claimed: the constructor and load_config_file fail on a mapping that
\* lacks a required field, with a message naming every field it lacks.
C7_Original ==
    (MappingGiven /\ MissingOf(source.mapping) # {}) =>
        /\ pc = "rejected"
        /\ MissingOf(source.mapping) \subseteq Range(raised.msg)

\* C7 (amended): both fail on a mapping that lacks a required field, and the
\* message names every field it lacks, except that the constructor given an
\* empty mapping fails with a message that names no field.
C7_MissingFieldsNamed ==
    (MappingGiven /\ MissingOf(source.mapping) # {}) =>
        /\ pc = "rejected"
        /\ IF source.kind = "dict" /\ source.mapping.keys = {}
           THEN Range(raised.msg) \cap Range(required_fields) = {}
           ELSE MissingOf(source.mapping) \subseteq Range(raised.msg)

C7_Witness ==
    /\ pc = "rejected"
    /\ source.kind = "file"
    /\ source.parses
    /\ MissingOf(source.mapping) = {"frame_height", "rows"}
    /\ {"frame_height", "rows"} \subseteq Range(raised.msg)

\* C8 as claimed: load_config_file raises FileNotFoundError for a missing
\* file, json.JSONDecodeError for a file that does not parse and ValueError for
\* a mapping that lacks required fields, which the tool's `except ValueError`
\* clause handles.
C8_Claim ==
    (pc = "rejected" /\ source.kind = "file") =>
        /\ ~source.exists =>
             raised.type = "FileNotFoundError" /\ branch = "FileNotFoundError"
        /\ (source.exists /\ ~source.parses) =>
             raised.type = "JSONDecodeError" /\ branch = "JSONDecodeError"
        /\ (source.exists /\ source.parses) =>
             raised.type = "ValueError" /\ branch = "ValueError"

Accepted == pc \in {"constructed", "loop", "done"}

\* The animations whose frames lie on the cells of a row of the canvas.
AnimationsInRow(r) ==
    UNION {{sprite_sheet.cells[c].layers[i].dir :
                i \in 1..Len(sprite_sheet.cells[c].layers)} :
           c \in {d \in DOMAIN sprite_sheet.cells : d[2] = r}}

\* C9 as claimed: a configuration in which two animations name the same row
\* is not accepted, and no row of the canvas holds frames of two animations.
C9_Claim ==
    /\ Accepted =>
         \A i, j \in 1..Len(self.animations) :
            i # j => self.animations[i].row # self.animations[j].row
    /\ \A c \in DOMAIN sprite_sheet.cells : Cardinality(AnimationsInRow(c[2])) <= 1

\* C10 as claimed: a configuration with a zero or negative frame_width,
\* frame_height, cols or rows is not accepted, and no run reports success with
\* a canvas width or height that is not positive.
C10_Claim ==
    /\ Accepted => ValidDims(self)
    /\ (pc = "done" /\ result.success) =>
          result.sheet_width > 0 /\ result.sheet_height > 0

\* The sum of the values of a function with a finite domain.
RECURSIVE FnSum(_)
FnSum(f) ==
    IF DOMAIN f = {} THEN 0
    ELSE LET x == CHOOSE y \in DOMAIN f : TRUE
         IN f[x] + FnSum([y \in DOMAIN f \ {x} |-> f[y]])

\* A composition is past find_frames on a directory that exists.
Scanning == pc \in {"loop", "done"} /\ input_dir.exists

\* The number of frames that lie on cells of the grid.
FramesOnCanvas ==
    FnSum([c \in DOMAIN sprite_sheet.cells |-> Len(sprite_sheet.cells[c].layers)])

\* C11 as claimed: every frame create_sprite_sheet places, and counts as
\* processed, lies on a cell <<column, row>> of the grid, 0 <= column < cols and
\* 0 <= row < rows, for every accepted configuration (here: of those with
\* positive dimensions).
C11_Claim ==
    (pc \in {"loop", "done"} /\ ValidDims(self)) =>
        /\ \A c \in DOMAIN sprite_sheet.cells :
             0 <= c[1] /\ c[1] < self.cols /\ 0 <= c[2] /\ c[2] < self.rows
        /\ processed_frames = FramesOnCanvas

\* The number of files of the frame's subdirectory whose name parses to a
\* smaller index (or, with orEqual, to one that is not larger).
IndexRank(p, orEqual) ==
    Cardinality({st \in StemsIn(input_dir, p.dir) :
                    /\ int_parses(st)
                    /\ \/ int(st) < int(p.stem)
                       \/ orEqual /\ int(st) = int(p.stem)})

\* C12: a frame that lies in column i of a row is a frame of an animation of
\* that row, found in that animation's subdirectory, and exactly i frames of
\* the subdirectory come before it in the order of the parsed indices compared
\* as numbers (2 before 10; among frames of one index, i of the others).
C12_NumericOrder ==
    Scanning =>
        \A c \in DOMAIN sprite_sheet.cells :
            \A k \in 1..Len(sprite_sheet.cells[c].layers) :
                LET p == sprite_sheet.cells[c].layers[k] IN
                /\ \E i \in 1..Len(self.animations) :
                      self.animations[i].name = p.dir /\ self.animations[i].row = c[2]
                /\ p.stem \in StemsIn(input_dir, p.dir)
                /\ int_parses(p.stem)
                /\ IndexRank(p, FALSE) <= c[1]
                /\ c[1] < IndexRank(p, TRUE)

C12_Witness ==
    /\ pc = "done"
    /\ result.success
    /\ input_dir.subdirs["idle"] = <<<<"1", "0">>, <<"2">>>>
    /\ Len(self.animations) = 1
    /\ self.animations[1].row = 1
    /\ sprite_sheet.cells[<<0, 1>>].layers = <<[dir |-> "idle", stem |-> <<"2">>]>>
    /\ sprite_sheet.cells[<<1, 1>>].layers = <<[dir |-> "idle", stem |-> <<"1", "0">>]>>

\* The directory without the files whose name holds no parsable index: the
\* stem under the subdirectory convention, the part after the last underscore
\* under the flat one.
WithoutUnparsable(dir) ==
    LET parsable(st) == int_parses(st)
        flat_parsable(st) == int_parses(frame_num_str(st))
    IN [dir EXCEPT !.subdirs = [d \in DirNames |-> SelectSeq(dir.subdirs[d], parsable)],
                   !.flat = SelectSeq(dir.flat, flat_parsable)]

HasUnparsable(dir) == WithoutUnparsable(dir) # dir

\* C13: a file whose name holds no parsable index is in no list of the frame
\* set, the frame set is the one the directory without such files yields (so
\* the other frames keep their cells), and the composition of a directory
\* with such files does not fail; under both naming conventions.
C13_UnparsableSkipped ==
    /\ Scanning =>
         /\ \A d \in DOMAIN found_frames :
              \A i \in 1..Len(found_frames[d]) : int_parses(found_frames[d][i].stem)
         /\ found_frames = find_frames(WithoutUnparsable(input_dir))
    /\ (Composed /\ HasUnparsable(input_dir)) => result.success
    /\ pc = "scanned" =>
         /\ \A n \in DOMAIN found_frames :
              \A i \in 1..Len(found_frames[n]) :
                 int_parses(frame_num_str(found_frames[n][i]))
         /\ found_frames = flat_find_frames(WithoutUnparsable(input_dir))

C13_Witness ==
    /\ pc = "done"
    /\ result.success
    /\ input_dir.subdirs["idle"] = <<<<"x">>, <<"2">>, <<"1">>>>
    /\ input_dir.corrupt = {}
    /\ Len(self.animations) = 1
    /\ self.animations[1].frames = 2
    /\ self.animations[1].row = 0
    /\ sprite_sheet.cells[<<0, 0>>].layers = <<[dir |-> "idle", stem |-> <<"1">>]>>
    /\ sprite_sheet.cells[<<1, 0>>].layers = <<[dir |-> "idle", stem |-> <<"2">>]>>
    /\ result.processed_frames = 2
    /\ result.missing_frames = 0

\* C14 as claimed: under the flat convention every file {animation}_{index}.png
\* with a numeric index is in the frame list of the animation named by all
\* that precedes the last underscore, also when that name has no underscore.
C14_Claim ==
    pc = "scanned" =>
        \A i \in 1..Len(input_dir.flat) :
            LET filename == input_dir.flat[i] IN
            (Len(split(filename)) >= 2 /\ int_parses(frame_num_str(filename))) =>
                /\ anim_name_of(filename) \in DOMAIN found_frames
                /\ filename \in Range(found_frames[anim_name_of(filename)])

\* The configured animations that have no frame file on disk.
AbsentAnimations == {i \in 1..Len(self.animations) : NothingOnDisk(self.animations[i])}

\* C15 as claimed: the frame set has an entry for every configured animation,
\* an empty list for one that has no file on disk.
C15_Original ==
    Scanning =>
        \A i \in 1..Len(self.animations) :
            /\ self.animations[i].name \in DOMAIN found_frames
            /\ i \in AbsentAnimations => found_frames[self.animations[i].name] = <<>>

\* C15 (amended): the frame set has an entry exactly for the subdirectories
\* that hold a frame file with a parsable name, and no entry is an empty list:
\* a configured animation with no file on disk is omitted from the frame set;
\* a successful create_sprite_sheet counts all its frames as missing.
C15_AbsentOmitted ==
    /\ Scanning =>
         /\ \A d \in DirNames :
              d \in DOMAIN found_frames <=>
                  \E st \in StemsIn(input_dir, d) : int_parses(st)
         /\ \A d \in DOMAIN found_frames : found_frames[d] # <<>>
         /\ \A i \in AbsentAnimations : self.animations[i].name \notin DOMAIN found_frames
    /\ (Scanning /\ pc = "done" /\ result.success) =>
         result.missing_frames >=
             FnSum([i \in AbsentAnimations |-> self.animations[i].frames])

C15_Witness ==
    /\ pc = "done"
    /\ result.success
    /\ Len(self.animations) = 2
    /\ self.animations[1].frames = 2
    /\ self.animations[2].frames = 1
    /\ AbsentAnimations = {1}
    /\ DOMAIN found_frames = {"walk"}
    /\ result.missing_frames = 2
    /\ result.processed_frames = 1

\* C16 as claimed: of the files of one animation that parse to the same index
\* the frame set keeps one, the first that the enumeration of the directory
\* yields; under both naming conventions.
C16_Claim ==
    /\ Scanning =>
         \A d \in DOMAIN found_frames :
            /\ \A i, j \in 1..Len(found_frames[d]) :
                  i # j => int(found_frames[d][i].stem) # int(found_frames[d][j].stem)
            /\ \A k \in 1..Len(input_dir.subdirs[d]) :
                  (/\ int_parses(input_dir.subdirs[d][k])
                   /\ \A j \in 1..(k - 1) :
                         int_parses(input_dir.subdirs[d][j]) =>
                            int(input_dir.subdirs[d][j]) # int(input_dir.subdirs[d][k]))
                  => [dir |-> d, stem |-> input_dir.subdirs[d][k]]
                        \in Range(found_frames[d])
    /\ pc = "scanned" =>
         \A n \in DOMAIN found_frames :
            \A i, j \in 1..Len(found_frames[n]) :
               i # j => int(frame_num_str(found_frames[n][i]))
                           # int(frame_num_str(found_frames[n][j]))

ConfiguredNames == {self.animations[i].name : i \in 1..Len(self.animations)}

\* The frames of the animation that a run with positive dimensions places.
PlacedOf(a) == IF Discovered(a) THEN CountOf(Attempted(a), FALSE) ELSE 0

\* C17: no frame of a subdirectory that is not a configured animation lies on
\* the canvas, and a run with positive dimensions succeeds with counts that
\* the configured animations' own subdirectories determine: processed_frames
\* is the number of their frames placed, missing_frames the rest of their
\* frame counts.
C17_UnconfiguredIgnored ==
    /\ Scanning =>
         \A c \in DOMAIN sprite_sheet.cells :
            \A k \in 1..Len(sprite_sheet.cells[c].layers) :
               sprite_sheet.cells[c].layers[k].dir \in ConfiguredNames
    /\ Composed =>
         /\ result.success
         /\ result.processed_frames =
               FnSum([i \in 1..Len(self.animations) |-> PlacedOf(self.animations[i])])
         /\ result.missing_frames =
               FnSum([i \in 1..Len(self.animations) |->
                         self.animations[i].frames - PlacedOf(self.animations[i])])

C17_Witness ==
    /\ pc = "done"
    /\ result.success
    /\ ConfiguredNames = {"idle"}
    /\ input_dir.subdirs["walk"] = <<<<"1">>, <<"2">>>>
    /\ DOMAIN found_frames = {"idle", "walk"}
    /\ self.cols = 2
    /\ self.animations[1].frames = 2
    /\ result.processed_frames = 1
    /\ result.missing_frames = 1
    /\ FramesOnCanvas = 1

\* C18 as claimed: the metadata file of a successful composition holds the
\* frame width and height, the column and row counts, and for exactly the
\* configured animations the row and the frame count of each.
C18_Claim ==
    (pc = "done" /\ result.success) =>
        /\ files.metadata_written
        /\ {"frame_width", "frame_height", "cols", "rows", "animations"}
              \subseteq DOMAIN files.metadata
        /\ files.metadata.frame_width = self.frame_width
        /\ files.metadata.frame_height = self.frame_height
        /\ files.metadata.cols = self.cols
        /\ files.metadata.rows = self.rows
        /\ files.metadata.animations =
              [i \in 1..Len(self.animations) |->
                  [name |-> self.animations[i].name,
                   row |-> self.animations[i].row,
                   frames |-> self.animations[i].frames]]

\* The composer made from the configuration given, with the animations
\* mapping of the metadata file in place of its own.
FedBack ==
    SpriteSheetComposer([source.mapping EXCEPT !.animations = files.metadata.animations])

\* C19 as claimed: the row the metadata gives for an animation is the row of
\* the canvas its frames lie in, numbered as the configuration numbers rows:
\* the composer made from the emitted animations mapping has every animation
\* in the row it had, and every frame on the canvas lies in the row the
\* metadata gives for its animation.
C19_Claim ==
    (pc = "done" /\ result.success) =>
        /\ ~FedBack.raised
        /\ \A i \in 1..Len(self.animations) :
              FedBack.value.animations[i].row = self.animations[i].row
        /\ \A c \in DOMAIN sprite_sheet.cells :
              \A k \in 1..Len(sprite_sheet.cells[c].layers) :
                 \E i \in 1..Len(files.metadata.animations) :
                    /\ files.metadata.animations[i].name
                          = sprite_sheet.cells[c].layers[k].dir
                    /\ files.metadata.animations[i].row = c[2]

\* C20: a second create_sprite_sheet on the same, unchanged directory by the
\* same composer returns the result of the first, with the same
\* processed_frames and missing_frames, writes the same metadata and has the
\* same frames in every cell.
C20_Idempotent ==
    (pc = "done" /\ first_run.again) =>
        /\ result = first_run.result
        /\ files.metadata = first_run.metadata
        /\ sprite_sheet = first_run.sprite_sheet

C20_Witness ==
    /\ pc = "done"
    /\ first_run.again
    /\ result.success
    /\ input_dir.subdirs["idle"] = <<<<"0", "1">>, <<"2">>, <<"1">>>>
    /\ input_dir.corrupt = {[dir |-> "idle", stem |-> <<"2">>]}
    /\ Len(self.animations) = 2
    /\ result.processed_frames = 2
    /\ result.missing_frames = 1
    /\ files.metadata.animations # <<>>

\* C23: a create_sprite_sheet on an input directory that does not exist
\* returns success = false with a message that names the directory; of the
\* output it has made neither the directory, nor the image, nor the metadata.
C23_MissingInputRoot ==
    (pc = "done" /\ ~input_dir.exists) =>
        /\ ~result.success
        /\ input_dir.path \in Range(result.message)
        /\ result.output_path = "" /\ result.config_path = ""
        /\ ~files.parent_dir /\ ~files.image /\ ~files.metadata_written

C23_Witness ==
    /\ pc = "done"
    /\ ~input_dir.exists
    /\ ~result.success
    /\ Len(self.animations) = 2
    /\ result.message =
          <<"failed to create sprite sheet", "input directory does not exist",
            "no_such_dir">>
    /\ files = NoFiles

\* The sum of the configured frame counts.
ConfiguredFrames ==
    FnSum([i \in 1..Len(self.animations) |-> self.animations[i].frames])

\* C28: a successful create_sprite_sheet reports processed_frames and
\* missing_frames that add up to the sum of the configured frame counts, and
\* while the loop runs the two counters add up to the frame counts of the
\* animations handled so far.
C28_CountsAddUp ==
    /\ pc = "loop" =>
         processed_frames + missing_frames =
            FnSum([i \in 1..(anim_idx - 1) |-> self.animations[i].frames])
    /\ (pc = "done" /\ result.success) =>
         result.processed_frames + result.missing_frames = ConfiguredFrames

C28_Witness ==
    /\ pc = "done"
    /\ result.success
    /\ Len(self.animations) = 2
    /\ self.animations[1].frames = 1
    /\ self.animations[2].frames = 2
    /\ Surplus(self.animations[1])
    /\ FrameFails(self.animations[1])
    /\ AbsentAnimations = {2}
    /\ result.processed_frames = 0
    /\ result.missing_frames = 3

\* C21 as claimed: a create_sprite_sheet that returns success = false leaves
\* no output file of the run behind, neither the image nor the metadata.
C21_Claim ==
    (pc = "done" /\ ~result.success) => ~files.image /\ ~files.metadata_written

\* C22 as claimed: when a preview is requested and any step of producing it
\* fails, the composition still succeeds, with the image and the metadata
\* written and no preview path reported.
C22_Claim ==
    (pc = "done" /\ input_dir.exists /\ legacy.generate_preview
        /\ legacy.preview_step # "none") =>
        /\ result.success
        /\ legacy.image /\ legacy.metadata_written
        /\ legacy.preview_path = ""

\* What the default-filling load_config_file is to return for the file given:
\* the user's value for each key of a file that is a JSON object, the default
\* value for every other key.
FilledConfig ==
    LET file == legacy.config_file
        given(k) == file.exists /\ file.parses /\ file.is_object /\ k \in file.mapping.keys
    IN [k \in ConfigKeys |->
           IF given(k) THEN file.mapping[k] ELSE get_default_config[k]]

\* C24: the default-filling load_config_file never raises; what it returns
\* holds the five required fields, each key of the user's file with the
\* user's value as a whole, every other key with its default.
C24_DefaultsFilled ==
    /\ pc # "rejected"
    /\ pc = "loaded" =>
          /\ Range(required_fields) \subseteq config.keys
          /\ \A k \in ConfigKeys : config[k] = FilledConfig[k]

\* A file that holds only cols and an animations object with one animation:
\* the animations are the user's alone, the frame size is the default's.
C24_Witness ==
    /\ pc = "loaded"
    /\ legacy.config_file.exists /\ legacy.config_file.is_object
    /\ legacy.config_file.mapping.keys = {"cols", "animations"}
    /\ Len(config.animations) = 1
    /\ config.animations[1].name = WalkDown
    /\ config.cols = 2 /\ config.rows = 16
    /\ config.frame_width = 64 /\ config.frame_height = 96

\* No two animations of the composer name the same row.
DistinctRows ==
    \A i, j \in 1..Len(self.animations) :
        i # j => self.animations[i].row # self.animations[j].row

\* The canvas and the counters of the loops run one after the other, in the
\* order of the configuration.
InConfigOrder ==
    process_animations(self, input_dir, found_frames,
        [sprite_sheet |-> Image_new(self), processed_frames |-> 0,
         missing_frames |-> 0], 1)

\* C25: when every animation has a row of its own, the canvas and the two
\* counters after the loops are those of the loops run in configuration
\* order, whatever the order and interleaving of the loops' steps was.
C25_OrderIndependent ==
    (pc \in {"loop", "done"} /\ anim_idx > Len(self.animations) /\ DistinctRows) =>
        /\ sprite_sheet = InConfigOrder.sprite_sheet
        /\ processed_frames = InConfigOrder.processed_frames
        /\ missing_frames = InConfigOrder.missing_frames
        /\ pc = "done" =>
              /\ result.processed_frames = InConfigOrder.processed_frames
              /\ result.missing_frames = InConfigOrder.missing_frames

\* Two animations on rows of their own with two frames each, the second
\* animation's loop started first and the two loops interleaved.
C25_Witness ==
    /\ pc = "done" /\ DistinctRows
    /\ placement.order = <<2, 1, 2, 1, 1, 2>>
    /\ result.processed_frames = 4
    /\ result.missing_frames = 0

\* C26: create_sprite_sheet and the metadata emitter leave the composer as
\* the constructor made it, and a call after the directory changed works on
\* the directory as it is now: its frame set, canvas and counters are those
\* of a first call on the current contents.
C26_NoStateKept ==
    /\ pc \in {"constructed", "loop", "done"} =>
          self = SpriteSheetComposer(source.mapping).value
    /\ (pc \in {"loop", "done"} /\ first_run.again) =>
          found_frames = find_frames(input_dir)
    /\ (pc = "done" /\ first_run.again /\ result.success) =>
          /\ sprite_sheet = InConfigOrder.sprite_sheet
          /\ result.processed_frames = InConfigOrder.processed_frames
          /\ result.missing_frames = InConfigOrder.missing_frames
          /\ files.metadata = generate_sprite_config(SpriteSheetComposer(source.mapping).value)

\* The first call placed two frames; the files were removed, and the second
\* call places none and counts both as missing.
C26_Witness ==
    /\ pc = "done" /\ first_run.again
    /\ first_run.result.success /\ first_run.result.processed_frames = 2
    /\ result.success /\ result.processed_frames = 0 /\ result.missing_frames = 2
    /\ found_frames = <<>>

\* The action folders that contain frames: files frame_*.png or frame_*.jpg.
FoldersWithFrames ==
    LET HasFrames(d) == tool.input.folders[d].png > 0 \/ tool.input.folders[d].jpg > 0
    IN SelectSeq(action_folders(tool.input), HasFrames)

\* The number of frames of a folder: its PNG files, or else its JPG files.
SourceFrames(d) ==
    IF tool.input.folders[d].png > 0 THEN tool.input.folders[d].png
    ELSE tool.input.folders[d].jpg

\* C27 as claimed: the derived configuration has one row per action folder
\* with frames, the rows 0 .. rows - 1 in folder-name order, cols equal to
\* the largest frame count of a folder, and between 1 and cols frames for
\* every animation.
C27_Claim ==
    tool.config # EmptyMapping =>
        /\ tool.config.rows = Len(FoldersWithFrames)
        /\ Len(tool.config.animations) = Len(FoldersWithFrames)
        /\ \A i \in 1..Len(tool.config.animations) :
              /\ tool.config.animations[i].name = FoldersWithFrames[i]
              /\ tool.config.animations[i].row = i - 1
              /\ tool.config.animations[i].frames >= 1
              /\ tool.config.animations[i].frames <= tool.config.cols
        /\ \E d \in Range(FoldersWithFrames) : tool.config.cols = SourceFrames(d)
        /\ \A d \in Range(FoldersWithFrames) : tool.config.cols >= SourceFrames(d)

\* Every entry of the action folders is a decodable image file.
OnlyImageFiles ==
    \A d \in DirNames :
        tool.input.folders[d].png_dirs = 0 /\ tool.input.folders[d].decodable

\* C29 as claimed: every folder given a row with n frames has n frames staged,
\* and a run over folders of decodable, equally sized PNG or JPG frames
\* reports no missing frame and processes every source frame.
C29_Claim ==
    (tool.pc \in {"staged", "returned"} /\ pc = "done" /\ result.success
        /\ OnlyImageFiles) =>
        /\ \A i \in 1..Len(self.animations) :
              Len(staged_dir(tool.input).subdirs[self.animations[i].name])
                  = self.animations[i].frames
        /\ result.missing_frames = 0
        /\ result.processed_frames
              = FnSum([i \in 1..Len(FoldersWithFrames) |-> SourceFrames(FoldersWithFrames[i])])

\* C30 as claimed: when the tool has returned, _temp_frames does not exist.
C30_Claim == tool.pc = "returned" => ~tool.temp_dir

====
